---- MODULE Spec2Model ----
(***************************************************************************)
(* State-machine model of tgen/tfclassif.py: the tree embedding extractor  *)
(* (TreeEmbeddingClassifExtract) and the tree classifier                   *)
(* (TFTreeClassifier): training loop with validation-driven checkpoints,   *)
(* model persistence and the coverage predicates over binarized outputs.   *)
(*                                                                         *)
(* A tree is a sequence of <<t_lemma, formeme>> nodes, a dialogue act is   *)
(* the set of its DAI labels.  An attribute that may be None is a sequence *)
(* of at most one element: << >> is None and <<v>> is the value v.         *)
(***************************************************************************)
EXTENDS Integers, Sequences, FiniteSets, TLC

None == << >>

Some(v) == <<v>>

\* the value of an attribute that is not None
The(opt) == opt[1]

\* the name of the last call when there was none
NoCall == "none"

\* ------------------------------------------------------------------ data

\* longest tree drawn as an input
MaxNodes == 2

\* largest configured cfg['max_tree_len']
MaxTreeLen == 2

Lemmas == {"l1", "l2"}

Formemes == {"f1", "f2"}

NodeSet == Lemmas \X Formemes

TreesUpTo(n) == UNION {[1..k -> NodeSet] : k \in 0..n}

Trees == TreesUpTo(MaxNodes)

\* the lists of training trees handed to init_dict
TreeLists == {<<t>> : t \in Trees} \cup {<<t1, t2>> : t1 \in TreesUpTo(1), t2 \in TreesUpTo(1)}

\* TreeData(): the tree with no (lemma, formeme) node
EmptyTree == << >>

RECURSIVE SumSeq(_)
SumSeq(s) == IF s = << >> THEN 0 ELSE Head(s) + SumSeq(Tail(s))

RECURSIVE Flatten(_)
Flatten(ss) == IF ss = << >> THEN << >> ELSE Head(ss) \o Flatten(Tail(ss))

Abs(x) == IF x < 0 THEN -x ELSE x

\* dict.get(key, default)
DictGet(d, key, default) == IF key \in DOMAIN d THEN d[key] ELSE default

\* ------------------------------------------- TreeEmbeddingClassifExtract

VOID == 0

UNK_T_LEMMA == 1

UNK_FORMEME == 2

\* EmbeddingExtract.MIN_VALID: the lowest id init_dict hands out
MIN_VALID == 3

VARIABLES
    dict_t_lemma,   \* extractor: t-lemma -> id
    dict_formeme,   \* extractor: formeme -> id
    max_tree_len,   \* extractor: cfg['max_tree_len']
    emb_call        \* the last extractor call: its name, argument and return value

embvars == <<dict_t_lemma, dict_formeme, max_tree_len, emb_call>>

VARIABLES
    tree_vect,        \* fitted feature names of the tree vectorizer
    da_vect,          \* fitted feature names of the DA vectorizer (the output labels)
    session,          \* the live model parameters, None before _init_neural_network
    cur_da,           \* the DA given to init_run
    cur_da_bin,       \* its binarized vector
    ret               \* the last coverage query: its name, arguments and result

covvars == <<tree_vect, da_vect, session, cur_da, cur_da_bin, ret>>

VARIABLES
    cfg,              \* passes, min_passes, validation_freq, batch_size, randomize
    train_trees,      \* training trees, the empty tree last
    train_das,        \* training DAs, the empty DA last
    train_order,      \* the order in which a pass visits the training instances
    checkpoint_path,  \* None until the first checkpoint is written
    ckpt_file,        \* the parameters stored in the file at checkpoint_path
    pc,               \* where train() is: "idle", "loop", "error" (raised) or "done"
    iter_no,          \* train(): the pass about to run
    top_cost,         \* train(): the lowest combined cost so far, NaN at first
    valid_das,        \* train(): the argument valid_das
    valid_trees,      \* train(): the argument valid_trees, as prepared before the loop
    last,             \* what the latest pass of train() did (for the properties)
    seen_min,         \* the lowest combined cost of all validation points so far
    init_call,        \* the arguments of the latest _init_training call
    best_params       \* the parameters held at the validation point of the lowest
                      \* combined cost of the latest train(), the earliest on ties

trainvars == <<cfg, train_trees, train_das, train_order, checkpoint_path, ckpt_file, pc,
               iter_no, top_cost, valid_das, valid_trees, last, seen_min, init_call,
               best_params>>

VARIABLES
    model_file,       \* the model written by save_to_file: vectorizers and .tfsess
    saved_ctx,        \* the classifier as it was when save_to_file ran
    loaded,           \* the classifier returned by load_from_file (and the saved_ctx of its file)
    restored          \* restore_checkpoint has reloaded the checkpoint after train()

persistvars == <<model_file, saved_ctx, loaded, restored>>

\* TreeEmbeddingClassifExtract.__init__
ExtractInit ==
    /\ dict_t_lemma = ("UNK_T_LEMMA" :> UNK_T_LEMMA)
    /\ dict_formeme = ("UNK_FORMEME" :> UNK_FORMEME)
    /\ max_tree_len \in 0..MaxTreeLen
    /\ emb_call = [op |-> NoCall]

\* the loop body of init_dict over the nodes of all trees, in order
RECURSIVE InitDictNodes(_, _, _, _)
InitDictNodes(nodes, dl, df, ord) ==
    IF nodes = << >> THEN [dl |-> dl, df |-> df, ord |-> ord]
    ELSE LET t_lemma == Head(nodes)[1]
             formeme == Head(nodes)[2]
             newl    == t_lemma \notin DOMAIN dl
             dl2     == IF newl THEN (t_lemma :> ord) @@ dl ELSE dl
             ord2    == IF newl THEN ord + 1 ELSE ord
             newf    == formeme \notin DOMAIN df
             df2     == IF newf THEN (formeme :> ord2) @@ df ELSE df
             ord3    == IF newf THEN ord2 + 1 ELSE ord2
         IN  InitDictNodes(Tail(nodes), dl2, df2, ord3)

\* if dict_ord is None: dict_ord = self.MIN_VALID
FirstDictOrd(dict_ord) == IF dict_ord = None THEN MIN_VALID ELSE dict_ord

\* init_dict(train_trees, dict_ord) on dictionaries dl, df
InitDictOp(trees, dict_ord, dl, df) ==
    InitDictNodes(Flatten(trees), dl, df, FirstDictOrd(dict_ord))

\* variant of LeadingNodes that forgets the slice: all nodes are embedded
LeadingNodes_noslice(tree, mtl) == tree

\* tree.nodes[:max_tree_len]
LeadingNodes(tree, mtl) == SubSeq(tree, 1, IF Len(tree) < mtl THEN Len(tree) ELSE mtl)

\* the (formeme id, t-lemma id) pairs of the nodes, interleaved
RECURSIVE NodeEmbs(_, _, _)
NodeEmbs(nodes, dl, df) ==
    IF nodes = << >> THEN << >>
    ELSE <<DictGet(df, Head(nodes)[2], UNK_FORMEME), DictGet(dl, Head(nodes)[1], UNK_T_LEMMA)>>
         \o NodeEmbs(Tail(nodes), dl, df)

\* variant of GetEmbeddings that pads on the right instead of the left
GetEmbeddings_rightpad(tree, dl, df, mtl) ==
    LET embs == NodeEmbs(LeadingNodes(tree, mtl), dl, df)
    IN  IF Len(embs) < mtl * 2
        THEN embs \o [i \in 1..(mtl * 2 - Len(embs)) |-> VOID]
        ELSE embs

\* get_embeddings(tree)
GetEmbeddings(tree, dl, df, mtl) ==
    LET embs == NodeEmbs(LeadingNodes(tree, mtl), dl, df)
    IN  IF Len(embs) < mtl * 2
        THEN [i \in 1..(mtl * 2 - Len(embs)) |-> VOID] \o embs
        ELSE embs

\* get_embeddings_shape()
GetEmbeddingsShape(mtl) == <<mtl * 2>>

\* action: extractor.init_dict(train_trees), dict_ord left at its default
init_dict ==
    \E trees \in TreeLists :
        LET r == InitDictOp(trees, None, dict_t_lemma, dict_formeme)
        IN  /\ dict_t_lemma' = r.dl
            /\ dict_formeme' = r.df
            /\ emb_call' = [op |-> "init_dict", ret |-> r.ord]
            /\ UNCHANGED <<max_tree_len, covvars, trainvars, persistvars>>

\* action: extractor.get_embeddings(tree)
get_embeddings ==
    \E tree \in Trees :
        /\ emb_call' = [op |-> "get_embeddings", tree |-> tree,
                        ret |-> GetEmbeddings(tree, dict_t_lemma, dict_formeme, max_tree_len)]
        /\ UNCHANGED <<dict_t_lemma, dict_formeme, max_tree_len, covvars, trainvars, persistvars>>

\* the extractor as TFTreeClassifier leaves it when cfg['nn'] does not start
\* with 'emb' (the default): no extractor call is made
ExtractUnused ==
    /\ dict_t_lemma = ("UNK_T_LEMMA" :> UNK_T_LEMMA)
    /\ dict_formeme = ("UNK_FORMEME" :> UNK_FORMEME)
    /\ max_tree_len = MaxTreeLen
    /\ emb_call = [op |-> NoCall]

\* ------------------------------------------------------ TFTreeClassifier
\* The classifier is modelled with cfg['nn'] = '' (tree_embs is False: trees
\* are one-hot presence vectors) and cfg['nn_shape'] = 'ff0' (one linear
\* layer, _ff_layers with num_layers = 0).

\* DialogueAct().parse('inform()'): the DA with no DAI
EmptyDA == {}

\* the values a weight of the network takes (drawn from random_normal at first)
WeightVals == {-1, 1}

\* the values a bias of the network takes (tf.zeros at first)
BiasVals == {0, 1}

\* longest list of trees given to one coverage query
MaxQuery == 2

\* the trees of coverage queries: no node, and an unseen node before a seen one
QueryTrees == {EmptyTree, <<(<<"l2", "f2">>), (<<"l1", "f1">>)>>}

QueryLists == UNION {[1..k -> QueryTrees] : k \in 1..MaxQuery}

\* the DAs of coverage queries; the label "c" is unknown to the vectorizer
QueryDAs == {{}, {"a"}, {"b", "c"}, {"a", "b"}}

\* Features(['node: presence t_lemma formeme']).get_features(tree, {})
TreeFeats(tree) == {tree[i] : i \in 1..Len(tree)}

\* Features(['dat: dat_presence', 'svp: svp_presence']).get_features(None, {'da': da})
DaFeats(da) == da

\* DictVectorizer.fit: the feature names seen in the fitted data
VectFit(featsets) == UNION {featsets[i] : i \in 1..Len(featsets)}

\* DictVectorizer.transform of one instance: 1 for a fitted feature that is
\* present, features that were never fitted are dropped
VectTransform(vocab, feats) == [f \in vocab |-> IF f \in feats THEN 1 ELSE 0]

\* every value of the variables tf.all_variables() of the 'ff0' network
ParamSpace(tvocab, dvocab) ==
    [w : [tvocab \X dvocab -> WeightVals], b : [dvocab -> BiasVals]]

RECURSIVE SumOver(_, _)
SumOver(S, f) ==
    IF S = {} THEN 0 ELSE LET x == CHOOSE y \in S : TRUE IN f[x] + SumOver(S \ {x}, f)

\* session.run(self.outputs): _ff_layers, Y = identity(matmul(X, w) + b)
Outputs(p, x) ==
    [j \in DOMAIN p.b |->
        SumOver(DOMAIN x, [f \in DOMAIN x |-> x[f] * p.w[<<f, j>>]]) + p.b[j]]

\* [1. if r > 0 else 0. for r in result]
Binarize(result) == [j \in DOMAIN result |-> IF result[j] > 0 THEN 1 ELSE 0]

\* classify([tree])[0] with parameters p and the fitted tree vectorizer
ClassifyOne(p, tvocab, tree) == Binarize(Outputs(p, VectTransform(tvocab, TreeFeats(tree))))

\* classify(trees)
Classify(p, tvocab, trees) == [i \in 1..Len(trees) |-> ClassifyOne(p, tvocab, trees[i])]

\* da_vect.transform([da_feats.get_features(None, {'da': da})])[0] != 0
DaBin(dvocab, da) == [j \in dvocab |-> VectTransform(dvocab, DaFeats(da))[j] # 0]

\* numpy, elementwise: c != 0
NonZero(c) == [j \in DOMAIN c |-> c[j] # 0]

\* numpy, elementwise: a | b
OrVec(a, b) == [j \in DOMAIN a |-> a[j] \/ b[j]]

\* numpy, elementwise: a == b
EqVec(a, b) == [j \in DOMAIN a |-> a[j] = b[j]]

\* numpy: v.all()
All(v) == \A j \in DOMAIN v : v[j]

\* variant of SubsetTest that reads the expression as (c != 0) | (da_bin == da_bin)
SubsetTest_eqfirst(c, da_bin) == All(OrVec(NonZero(c), EqVec(da_bin, da_bin)))

\* ((c != 0) | da_bin == da_bin).all(): in Python | binds tighter than ==
SubsetTest(c, da_bin) == All(EqVec(OrVec(NonZero(c), da_bin), da_bin))

\* ((c != 0) == da_bin).all()
CorrespondsTest(c, da_bin) == All(EqVec(NonZero(c), da_bin))

\* numpy: a boolean taken as a number
BoolNum(v) == IF v THEN 1 ELSE 0

\* variant of Dist that sums the signed differences
Dist_signed(c, da_bin) == SumOver(DOMAIN c, [j \in DOMAIN c |-> c[j] - BoolNum(da_bin[j])])

\* sum(abs(c - da_bin))
Dist(c, da_bin) == SumOver(DOMAIN c, [j \in DOMAIN c |-> Abs(c[j] - BoolNum(da_bin[j]))])

\* action: init_run(da)
init_run ==
    /\ session # None
    /\ \E da \in QueryDAs :
          /\ cur_da' = Some(da)
          /\ cur_da_bin' = Some(DaBin(da_vect, da))
    /\ UNCHANGED <<tree_vect, da_vect, session, ret, embvars, trainvars, persistvars>>

\* action: is_subset_of_da(da, trees)
is_subset_of_da ==
    /\ session # None
    /\ \E da \in QueryDAs, trees \in QueryLists :
          LET da_bin  == DaBin(da_vect, da)
              covered == Classify(The(session), tree_vect, trees)
          IN  ret' = [op |-> "is_subset_of_da", da_bin |-> da_bin, covered |-> covered,
                      val |-> [i \in 1..Len(covered) |-> SubsetTest(covered[i], da_bin)]]
    /\ UNCHANGED <<tree_vect, da_vect, session, cur_da, cur_da_bin, embvars, trainvars, persistvars>>

\* action: is_subset_of_cur_da(trees); before init_run cur_da_bin is None and
\* the numpy expression raises, so the call returns nothing
is_subset_of_cur_da ==
    /\ session # None
    /\ cur_da_bin # None
    /\ \E trees \in QueryLists :
          LET da_bin  == The(cur_da_bin)
              covered == Classify(The(session), tree_vect, trees)
          IN  ret' = [op |-> "is_subset_of_cur_da", da_bin |-> da_bin, covered |-> covered,
                      val |-> [i \in 1..Len(covered) |-> SubsetTest(covered[i], da_bin)]]
    /\ UNCHANGED <<tree_vect, da_vect, session, cur_da, cur_da_bin, embvars, trainvars, persistvars>>

\* action: corresponds_to_cur_da(trees)
corresponds_to_cur_da ==
    /\ session # None
    /\ cur_da_bin # None
    /\ \E trees \in QueryLists :
          LET da_bin  == The(cur_da_bin)
              covered == Classify(The(session), tree_vect, trees)
          IN  ret' = [op |-> "corresponds_to_cur_da", da_bin |-> da_bin, covered |-> covered,
                      val |-> [i \in 1..Len(covered) |-> CorrespondsTest(covered[i], da_bin)]]
    /\ UNCHANGED <<tree_vect, da_vect, session, cur_da, cur_da_bin, embvars, trainvars, persistvars>>

\* action: dist_to_da(da, trees)
dist_to_da ==
    /\ session # None
    /\ \E da \in QueryDAs, trees \in QueryLists :
          LET da_bin  == DaBin(da_vect, da)
              covered == Classify(The(session), tree_vect, trees)
          IN  ret' = [op |-> "dist_to_da", da_bin |-> da_bin, covered |-> covered,
                      val |-> [i \in 1..Len(covered) |-> Dist(covered[i], da_bin)]]
    /\ UNCHANGED <<tree_vect, da_vect, session, cur_da, cur_da_bin, embvars, trainvars, persistvars>>

\* action: dist_to_cur_da(trees)
dist_to_cur_da ==
    /\ session # None
    /\ cur_da_bin # None
    /\ \E trees \in QueryLists :
          LET da_bin  == The(cur_da_bin)
              covered == Classify(The(session), tree_vect, trees)
          IN  ret' = [op |-> "dist_to_cur_da", da_bin |-> da_bin, covered |-> covered,
                      val |-> [i \in 1..Len(covered) |-> Dist(covered[i], da_bin)]]
    /\ UNCHANGED <<tree_vect, da_vect, session, cur_da, cur_da_bin, embvars, trainvars, persistvars>>

\* ---------------------------------------------------------------- training

\* cfg['passes'] of the modelled runs
MaxPasses == 3

\* the values of cfg['min_passes'], cfg['validation_freq'] and cfg['batch_size']
MinPassesVals == {0, 1}

FreqVals == {1, 2}

BatchVals == {1, 2}

\* largest pass_cost, the summed loss of the batches of one pass (the floats
\* on an integer grid)
MaxLoss == 1

\* data_portion is k / PortionDen for k in 0..PortionDen
PortionDen == 4

\* most tree/DA pairs handed to _init_training
MaxData == 2

\* float('nan'); every cost is a number >= 0
NaN == 0 - 1

\* math.isnan(x)
IsNaN(x) == x = NaN

\* a < b on floats: false when either side is NaN
FloatLess(a, b) == a # NaN /\ b # NaN /\ a < b

Min(a, b) == IF a < b THEN a ELSE b

\* seq[:n] for n >= 0
Prefix(seq, n) == SubSeq(seq, 1, Min(n, Len(seq)))

\* int(round(num / den)) for num >= 0, den > 0: Python 2 rounds half away from zero
PyRound(num, den) == (2 * num + den) \div (2 * den)

\* variant of InitTrainingData that appends the empty instance before subsampling
InitTrainingData_appendfirst(das, trees, k) ==
    LET train_size == PyRound(k * Len(trees), PortionDen)
    IN  [train_trees |-> Prefix(Append(trees, EmptyTree), train_size),
         train_das   |-> Prefix(Append(das, EmptyDA), train_size)]

\* _init_training, lines 299-310: subsample, then append the empty tree and DA
InitTrainingData(das, trees, k) ==
    LET train_size == PyRound(k * Len(trees), PortionDen)
    IN  [train_trees |-> Append(Prefix(trees, train_size), EmptyTree),
         train_das   |-> Append(Prefix(das, train_size), EmptyDA)]

\* range(len(self.train_trees)), instances numbered from 1
RangeOrder(n) == [i \in 1..n |-> i]

\* tree_vect.fit_transform / da_vect.fit_transform: the fitted feature names
FitTrees(trees) == VectFit([i \in 1..Len(trees) |-> TreeFeats(trees[i])])

FitDas(das) == VectFit([i \in 1..Len(das) |-> DaFeats(das[i])])

\* session.run(tf.initialize_all_variables()): random weights, zero biases
ParamInit(tvocab, dvocab) == {p \in ParamSpace(tvocab, dvocab) : \A j \in dvocab : p.b[j] = 0}

\* self.X[i] and self.y[i]
InstX(i) == VectTransform(tree_vect, TreeFeats(train_trees[i]))

InstY(i) == VectTransform(da_vect, DaFeats(train_das[i]))

\* the orders a pass may visit n instances in: rnd.shuffle if randomize
Orders(n, randomize) ==
    IF randomize
    THEN {f \in [1..n -> 1..n] : \A i, j \in 1..n : i # j => f[i] # f[j]}
    ELSE {RangeOrder(n)}

\* batches(): train_order[i: i + batch_size] for i in 0, batch_size, ...
Batches(order, bs) ==
    [k \in 1..((Len(order) + bs - 1) \div bs) |->
        SubSeq(order, (k - 1) * bs + 1, Min(k * bs, Len(order)))]

\* np.sum(np.abs(self.y[tree_nos] - bin_result)) with the results of parameters p
BatchDiff(p, tree_nos) ==
    SumSeq([n \in 1..Len(tree_nos) |->
        LET bin_result == Binarize(Outputs(p, InstX(tree_nos[n])))
            y          == InstY(tree_nos[n])
        IN  SumOver(DOMAIN y, [j \in DOMAIN y |-> Abs(y[j] - bin_result[j])])])

\* _training_pass: every way the batches can go, as the parameters it leaves
\* and the pass_diff it returns.  One session.run fetches the outputs and
\* applies the optimizer step; TensorFlow leaves their order open, so the
\* fetched results are those of the parameters before (p) or after (q) the
\* step.  The step may leave any parameters.
RECURSIVE PassOutcomes(_, _, _)
PassOutcomes(batches, p, pass_diff) ==
    IF batches = << >>
    THEN {[session |-> p, pass_diff |-> pass_diff]}
    ELSE UNION {UNION {
            PassOutcomes(Tail(batches), q, pass_diff + BatchDiff(r, Head(batches)))
            : r \in {p, q}} : q \in ParamSpace(tree_vect, da_vect)}

\* valid_das > 0 in Python 2: None is smaller than every number, a list
\* (empty or not) is larger than every number
PyGtZero(opt) == opt # None

\* variant of ShouldValidate with iter_no >= min_passes
ShouldValidate_ge(it, c, vdas) ==
    it >= c.min_passes /\ it % c.validation_freq = 0 /\ PyGtZero(vdas)

\* line 199: iter_no > self.min_passes and iter_no % self.validation_freq == 0 and valid_das > 0
ShouldValidate(it, c, vdas) ==
    it > c.min_passes /\ it % c.validation_freq = 0 /\ PyGtZero(vdas)

\* lines 187-191: valid_trees as the loop uses it.  An argument is a record
\* [kind, items]: a list of trees, or a tuple of two lists of paraphrases.
\* An empty list or tuple is falsy and left as it is.
PrepareValidTrees(arg) ==
    IF arg = None THEN None
    ELSE LET v == The(arg)
         IN  IF Len(v.items) = 0 THEN Some(<< >>)
             ELSE IF v.kind = "tuple"
             THEN Some([i \in 1..Min(Len(v.items[1]), Len(v.items[2])) |->
                           <<v.items[1][i], v.items[2][i]>>])
             ELSE Some([i \in 1..Len(v.items) |-> <<v.items[i]>>])

\* dist_to_da(da, trees) with parameters p
DistToDa(p, tvocab, dvocab, da, trees) ==
    LET da_bin  == DaBin(dvocab, da)
        covered == Classify(p, tvocab, trees)
    IN  [i \in 1..Len(covered) |-> Dist(covered[i], da_bin)]

\* line 201: np.sum([self.dist_to_da(d, t) for d, t in zip(valid_das, valid_trees)])
ValidDiff(p, tvocab, dvocab, vdas, vtrees) ==
    SumSeq([i \in 1..Min(Len(vdas), Len(vtrees)) |->
        SumSeq(DistToDa(p, tvocab, dvocab, vdas[i], vtrees[i]))])

\* line 204
CombinedCost(valid_diff, pass_diff, pass_cost) == 1000 * valid_diff + 100 * pass_diff + pass_cost

\* variant of IsBest that also takes an equal cost
IsBest_le(top, cur) == IsNaN(top) \/ cur <= top

\* line 208: math.isnan(top_cost) or cur_cost < top_cost
IsBest(top, cur) == IsNaN(top) \/ FloatLess(cur, top)

\* variant of SaveCheckpoint that makes a new checkpoint file at every save
SaveCheckpoint_newfile(path, files, p) ==
    [checkpoint_path |-> Some(Len(files) + 1),
     ckpt_file       |-> Append(files, p)]

\* _save_checkpoint on the checkpoint files (numbered in the order mkstemp
\* makes them): a new file only while checkpoint_path is unset, then
\* saver.save overwrites the file at checkpoint_path
SaveCheckpoint(path, files, p) ==
    LET newpath == IF path = None THEN Some(Len(files) + 1) ELSE path
        created == IF path = None THEN Append(files, p) ELSE files
    IN  [checkpoint_path |-> newpath,
         ckpt_file       |-> [created EXCEPT ![The(newpath)] = p]]

\* variant of SessionToSave that always writes the live session
SessionToSave_live(path, files, live) == live

\* save_to_file, lines 140-143: the parameters that end up in the .tfsess file
SessionToSave(path, files, live) == IF path # None THEN files[The(path)] ELSE live

\* how a combined cost compares with the lowest one of the earlier validation
\* points: "first" when there was none
CompareWithSeen(cost, seen) ==
    IF IsNaN(seen) THEN "first"
    ELSE IF cost < seen THEN "lower"
    ELSE IF cost = seen THEN "equal" ELSE "higher"

\* the record of a pass that has not happened: the number of the pass, what
\* its validation step did ("skipped", "validated", "raised"), whether it
\* saved a checkpoint, and how its cost compared with the earlier ones
NoPass == [iter |-> 0, step |-> "none", saved |-> FALSE, cmp |-> "none"]

\* the arguments train() is called with
TrainNode == <<"l1", "f1">>

TrainCorpora == {[das |-> <<{"a"}>>, trees |-> <<(<<TrainNode>>)>>]}

TrainPortions == {0, PortionDen}

ValidDasArgs == {None, Some(<< >>), Some(<<{"a"}>>)}

ValidTreesArgs ==
    {None,
     Some([kind |-> "list", items |-> << >>]),
     Some([kind |-> "list", items |-> <<(<<TrainNode>>)>>]),
     Some([kind |-> "tuple", items |-> <<(<<(<<TrainNode>>)>>), <<EmptyTree>>>>])}

\* the arguments _init_training is called with on its own
InitNodes == {<<"l1", "f1">>, <<"l2", "f1">>}

InitInputs ==
    UNION {{[das |-> d, trees |-> t] :
               d \in [1..n -> {{"a"}, {"b"}}], t \in [1..n -> {<<nd>> : nd \in InitNodes}]}
           : n \in 0..MaxData}

\* _init_training(das, trees, k / PortionDen): everything it assigns
InitTrainingEffect(das, trees, k) ==
    LET d == InitTrainingData(das, trees, k)
    IN  /\ train_trees' = d.train_trees
        /\ train_das' = d.train_das
        /\ train_order' = RangeOrder(Len(d.train_trees))
        /\ tree_vect' = FitTrees(d.train_trees)
        /\ da_vect' = FitDas(d.train_das)
        /\ \E p \in ParamInit(FitTrees(d.train_trees), FitDas(d.train_das)) : session' = Some(p)
        /\ init_call' = [das |-> das, trees |-> trees, k |-> k]

\* action: _init_training(das, trees, data_portion) called on its own
init_training ==
    /\ pc = "idle"
    /\ \E inp \in InitInputs, k \in 0..PortionDen : InitTrainingEffect(inp.das, inp.trees, k)
    /\ UNCHANGED <<cfg, checkpoint_path, ckpt_file, pc, iter_no, top_cost, valid_das,
                   valid_trees, last, seen_min, best_params>>
    /\ UNCHANGED <<cur_da, cur_da_bin, ret, embvars, persistvars>>

\* action: train(das, trees, data_portion, valid_das, valid_trees) up to its loop
train ==
    /\ pc = "idle"
    /\ \E inp \in TrainCorpora, k \in TrainPortions : InitTrainingEffect(inp.das, inp.trees, k)
    /\ top_cost' = NaN
    /\ \E vd \in ValidDasArgs, vt \in ValidTreesArgs :
          /\ valid_das' = vd
          /\ valid_trees' = PrepareValidTrees(vt)
    /\ iter_no' = 1
    /\ pc' = "loop"
    /\ last' = NoPass
    /\ seen_min' = NaN
    /\ best_params' = None
    /\ UNCHANGED <<cfg, checkpoint_path, ckpt_file>>
    /\ UNCHANGED <<cur_da, cur_da_bin, ret, embvars, persistvars>>

\* action: one iteration of the loop of train(), lines 193-210
train_pass ==
    /\ pc = "loop"
    /\ iter_no <= cfg.passes
    /\ \E order \in Orders(Len(train_trees), cfg.randomize) :
       \E o \in PassOutcomes(Batches(order, cfg.batch_size), The(session), 0) :
       \E pass_cost \in 0..MaxLoss :
          /\ train_order' = order
          /\ session' = Some(o.session)
          /\ IF ~ShouldValidate(iter_no, cfg, valid_das)
             THEN /\ last' = [NoPass EXCEPT !.iter = iter_no, !.step = "skipped"]
                  /\ iter_no' = iter_no + 1
                  /\ UNCHANGED <<pc, top_cost, checkpoint_path, ckpt_file, seen_min,
                                 best_params>>
             ELSE IF valid_trees = None
             THEN \* zip(valid_das, None) raises TypeError, which ends train()
                  /\ last' = [NoPass EXCEPT !.iter = iter_no, !.step = "raised"]
                  /\ pc' = "error"
                  /\ UNCHANGED <<iter_no, top_cost, checkpoint_path, ckpt_file, seen_min,
                                 best_params>>
             ELSE LET valid_diff == ValidDiff(o.session, tree_vect, da_vect,
                                              The(valid_das), The(valid_trees))
                      cur_cost   == CombinedCost(valid_diff, o.pass_diff, pass_cost)
                      best       == IsBest(top_cost, cur_cost)
                      saved      == SaveCheckpoint(checkpoint_path, ckpt_file, o.session)
                  IN  /\ last' = [iter |-> iter_no, step |-> "validated", saved |-> best,
                                  cmp |-> CompareWithSeen(cur_cost, seen_min)]
                      /\ top_cost' = IF best THEN cur_cost ELSE top_cost
                      /\ checkpoint_path' = IF best THEN saved.checkpoint_path ELSE checkpoint_path
                      /\ ckpt_file' = IF best THEN saved.ckpt_file ELSE ckpt_file
                      /\ seen_min' = IF IsNaN(seen_min) THEN cur_cost ELSE Min(seen_min, cur_cost)
                      /\ best_params' = IF IsNaN(seen_min) \/ cur_cost < seen_min
                                        THEN Some(o.session) ELSE best_params
                      /\ iter_no' = iter_no + 1
                      /\ UNCHANGED pc
    /\ UNCHANGED <<cfg, train_trees, train_das, tree_vect, da_vect, valid_das, valid_trees,
                   init_call>>
    /\ UNCHANGED <<cur_da, cur_da_bin, ret, embvars, persistvars>>

\* action: train() returns after the last pass; its locals are gone
train_return ==
    /\ pc = "loop"
    /\ iter_no > cfg.passes
    /\ pc' = "done"
    /\ iter_no' = 0
    /\ top_cost' = NaN
    /\ last' = NoPass
    /\ seen_min' = NaN
    /\ UNCHANGED <<cfg, train_trees, train_das, train_order, checkpoint_path, ckpt_file,
                   valid_das, valid_trees, init_call, best_params>>
    /\ UNCHANGED <<covvars, embvars, persistvars>>

\* action: restore_checkpoint()
restore_checkpoint ==
    /\ pc = "done"
    /\ IF checkpoint_path = None
       THEN UNCHANGED <<session, restored>>
       ELSE /\ session' = Some(ckpt_file[The(checkpoint_path)])
            /\ restored' = TRUE
    /\ UNCHANGED <<tree_vect, da_vect, cur_da, cur_da_bin, ret>>
    /\ UNCHANGED <<model_file, saved_ctx, loaded>>
    /\ UNCHANGED <<embvars, trainvars>>

\* action: save_to_file(model_fname)
save_to_file ==
    /\ pc = "done"
    /\ model_file' = Some([cfg |-> cfg, tree_vect |-> tree_vect, da_vect |-> da_vect,
                           tfsess |-> SessionToSave(checkpoint_path, ckpt_file, The(session))])
    /\ saved_ctx' = Some([live |-> The(session), had_ckpt |-> checkpoint_path # None,
                          restored |-> restored])
    /\ UNCHANGED <<loaded, restored>>
    /\ UNCHANGED <<covvars, embvars, trainvars>>

\* action: load_from_file(model_fname): a new classifier built from the
\* pickled configuration, its session restored from the .tfsess file
load_from_file ==
    /\ model_file # None
    /\ loaded' = Some([cfg |-> The(model_file).cfg, tree_vect |-> The(model_file).tree_vect,
                       da_vect |-> The(model_file).da_vect, session |-> The(model_file).tfsess,
                       checkpoint_path |-> None, saved_from |-> The(saved_ctx)])
    /\ UNCHANGED <<model_file, saved_ctx, restored>>
    /\ UNCHANGED <<covvars, embvars, trainvars>>

vars == <<embvars, covvars, trainvars, persistvars>>

\* ------------------------------------------------------- specifications

\* TFTreeClassifier.__init__ with the configuration c
ClassifierInit(c) ==
    /\ cfg = c
    /\ tree_vect = {}
    /\ da_vect = {}
    /\ session = None
    /\ cur_da = None
    /\ cur_da_bin = None
    /\ ret = [op |-> NoCall]
    /\ train_trees = << >>
    /\ train_das = << >>
    /\ train_order = << >>
    /\ checkpoint_path = None
    /\ ckpt_file = << >>
    /\ pc = "idle"
    /\ iter_no = 0
    /\ top_cost = NaN
    /\ valid_das = None
    /\ valid_trees = None
    /\ last = NoPass
    /\ seen_min = NaN
    /\ init_call = [das |-> << >>, trees |-> << >>, k |-> 0]
    /\ best_params = None
    /\ model_file = None
    /\ saved_ctx = None
    /\ loaded = None
    /\ restored = FALSE

\* the configurations of the modelled classifiers
Configs ==
    [passes : {MaxPasses}, min_passes : MinPassesVals, validation_freq : FreqVals,
     batch_size : BatchVals, randomize : BOOLEAN]

DefaultCfg ==
    [passes |-> MaxPasses, min_passes |-> 0, validation_freq |-> 1, batch_size |-> 1,
     randomize |-> TRUE]

\* the extractor on its own: init_dict and get_embeddings in any order
InitEmb ==
    /\ ExtractInit
    /\ ClassifierInit(DefaultCfg)

NextEmb ==
    \/ init_dict
    \/ get_embeddings

SpecEmb == InitEmb /\ [][NextEmb]_vars

\* a classifier after train() on trees with the node <<"l1", "f1">> and on DAs
\* with the labels "a" and "b", holding any parameters, answering coverage
\* queries
InitCov ==
    /\ ExtractUnused
    /\ cfg = DefaultCfg
    /\ train_trees = <<(<<TrainNode>>), <<TrainNode>>, EmptyTree>>
    /\ train_das = <<{"a"}, {"b"}, EmptyDA>>
    /\ train_order = RangeOrder(Len(train_trees))
    /\ tree_vect = FitTrees(train_trees)
    /\ da_vect = FitDas(train_das)
    /\ session \in {Some(p) : p \in ParamSpace(tree_vect, da_vect)}
    /\ cur_da = None
    /\ cur_da_bin = None
    /\ ret = [op |-> NoCall]
    /\ checkpoint_path = None
    /\ ckpt_file = << >>
    /\ pc = "done"
    /\ iter_no = 0
    /\ top_cost = NaN
    /\ valid_das = None
    /\ valid_trees = None
    /\ last = NoPass
    /\ seen_min = NaN
    /\ init_call = [das |-> <<{"a"}, {"b"}>>, trees |-> <<(<<TrainNode>>), <<TrainNode>>>>,
                    k |-> PortionDen]
    /\ best_params = None
    /\ model_file = None
    /\ saved_ctx = None
    /\ loaded = None
    /\ restored = FALSE

NextCov ==
    \/ init_run
    \/ is_subset_of_da
    \/ is_subset_of_cur_da
    \/ corresponds_to_cur_da
    \/ dist_to_da
    \/ dist_to_cur_da

SpecCov == InitCov /\ [][NextCov]_vars

\* _init_training called, any number of times, on a new classifier
InitInitTr ==
    /\ ExtractUnused
    /\ ClassifierInit(DefaultCfg)

NextInitTr == init_training

SpecInitTr == InitInitTr /\ [][NextInitTr]_vars

\* a new classifier of any configuration is trained once, then its checkpoint
\* is restored and the model saved and loaded in any order
InitTrain ==
    /\ ExtractUnused
    /\ \E c \in Configs : ClassifierInit(c)

NextTrain ==
    \/ train
    \/ train_pass
    \/ train_return
    \/ restore_checkpoint
    \/ save_to_file
    \/ load_from_file

SpecTrain == InitTrain /\ [][NextTrain]_vars

\* train() is sequential code: once called, its loop keeps running passes and
\* returns after the last one
SpecTrainFair == SpecTrain /\ WF_vars(train_pass) /\ WF_vars(train_return)

\* ------------------------------------------------- claims on the extractor

Injective(d) == \A k1, k2 \in DOMAIN d : k1 # k2 => d[k1] # d[k2]

KeepsIds(d, dnew) == \A k \in DOMAIN d : k \in DOMAIN dnew /\ dnew[k] = d[k]

\* C6 (as stated): across any sequence of init_dict calls with the default
\* dict_ord every lemma and every role keeps the id it was first given, and no
\* id is ever held by two different lemmas or by two different roles.
C6_IdsNeverReused ==
    [][/\ KeepsIds(dict_t_lemma, dict_t_lemma')
       /\ KeepsIds(dict_formeme, dict_formeme')
       /\ Injective(dict_t_lemma')
       /\ Injective(dict_formeme')]_vars

\* C7: get_embeddings returns exactly 2 * max_tree_len ids: with n nodes,
\* n < max_tree_len, 2 * (max_tree_len - n) leading VOID ids and then the
\* (role id, lemma id) pair of each node; with n >= max_tree_len no padding,
\* the pairs of the first max_tree_len nodes; an empty tree gives only VOID.
C7_EmbeddingLayout ==
    emb_call.op = "get_embeddings" =>
        LET tree == emb_call.tree
            out  == emb_call.ret
            n    == Len(tree)
            used == IF n < max_tree_len THEN n ELSE max_tree_len
            pad  == 2 * (max_tree_len - used)
        IN  /\ Len(out) = 2 * max_tree_len
            /\ \A i \in 1..pad : out[i] = VOID
            /\ n >= max_tree_len => pad = 0
            /\ n = 0 => \A i \in 1..Len(out) : out[i] = VOID
            /\ \A k \in 1..used :
                  /\ out[pad + 2 * k - 1] = DictGet(dict_formeme, tree[k][2], UNK_FORMEME)
                  /\ out[pad + 2 * k] = DictGet(dict_t_lemma, tree[k][1], UNK_T_LEMMA)

\* C7 witness: a non-empty tree shorter than max_tree_len was embedded with a
\* registered lemma
C7_Witness ==
    /\ emb_call.op = "get_embeddings"
    /\ Len(emb_call.tree) > 0
    /\ Len(emb_call.tree) < max_tree_len
    /\ emb_call.tree[1][1] \in DOMAIN dict_t_lemma

\* C8: for a tree longer than max_tree_len the result depends only on its
\* first max_tree_len nodes: every tree with the same leading nodes embeds to
\* the same sequence.
C8_TruncationOnly ==
    (emb_call.op = "get_embeddings" /\ Len(emb_call.tree) > max_tree_len) =>
        \A t2 \in Trees :
            (/\ Len(t2) >= max_tree_len
             /\ SubSeq(t2, 1, max_tree_len) = SubSeq(emb_call.tree, 1, max_tree_len))
            => GetEmbeddings(t2, dict_t_lemma, dict_formeme, max_tree_len) = emb_call.ret

\* C8 witness: a tree longer than a positive max_tree_len was embedded, and a
\* different tree shares its leading nodes
C8_Witness ==
    /\ emb_call.op = "get_embeddings"
    /\ max_tree_len >= 1
    /\ Len(emb_call.tree) > max_tree_len
    /\ \E t2 \in Trees :
          /\ t2 # emb_call.tree
          /\ Len(t2) >= max_tree_len
          /\ SubSeq(t2, 1, max_tree_len) = SubSeq(emb_call.tree, 1, max_tree_len)

\* --------------------------------------- claims on the coverage predicates

SubsetOps == {"is_subset_of_da", "is_subset_of_cur_da"}

DistOps == {"dist_to_da", "dist_to_cur_da"}

\* every coordinate that is on in c is on in da_bin
OnOnlyWhereDa(c, da_bin) == \A j \in DOMAIN c : c[j] = 1 => da_bin[j]

\* c and da_bin agree on every coordinate
SameAsDa(c, da_bin) == \A j \in DOMAIN c : (c[j] = 1) <=> da_bin[j]

\* C4: is_subset_of_da and is_subset_of_cur_da answer true for a tree exactly
\* when every coordinate on in its binarized prediction is on in the DA's
\* vector: true for the zero prediction, false when a predicted coordinate is
\* off in the DA.
C4_SubsetIffCovered ==
    ret.op \in SubsetOps =>
        \A i \in 1..Len(ret.val) :
            ret.val[i] <=> OnOnlyWhereDa(ret.covered[i], ret.da_bin)

\* C4 witness: a subset query against the cached DA answered false for one
\* tree and true for another whose prediction is not the zero vector
C4_Witness ==
    /\ ret.op = "is_subset_of_cur_da"
    /\ \E i \in 1..Len(ret.val) : ~ret.val[i]
    /\ \E i \in 1..Len(ret.val) : ret.val[i] /\ \E j \in DOMAIN ret.covered[i] : ret.covered[i][j] = 1

\* C10: the distance of a prediction to a DA vector is 0 exactly when
\* corresponds_to_cur_da answers true for the same pair, which is exactly
\* when the two vectors agree on every coordinate.
C10_DistZeroIffCorresponds ==
    /\ ret.op \in DistOps =>
          \A i \in 1..Len(ret.val) :
              /\ (ret.val[i] = 0) <=> CorrespondsTest(ret.covered[i], ret.da_bin)
              /\ (ret.val[i] = 0) <=> SameAsDa(ret.covered[i], ret.da_bin)
    /\ ret.op = "corresponds_to_cur_da" =>
          \A i \in 1..Len(ret.val) :
              /\ ret.val[i] <=> (Dist(ret.covered[i], ret.da_bin) = 0)
              /\ ret.val[i] <=> SameAsDa(ret.covered[i], ret.da_bin)

\* C10 witness: a distance query returned 0 for one tree and a positive
\* distance, with as many coordinates too many as too few, for another
C10_Witness ==
    /\ ret.op \in DistOps
    /\ \E i \in 1..Len(ret.val) : ret.val[i] = 0
    /\ \E i \in 1..Len(ret.val) :
          /\ ret.val[i] > 0
          /\ \E j \in DOMAIN ret.da_bin : ret.covered[i][j] = 1 /\ ~ret.da_bin[j]
          /\ \E j \in DOMAIN ret.da_bin : ret.covered[i][j] = 0 /\ ret.da_bin[j]

\* ------------------------------------------------ claims on the training

\* validation data is supplied: both arguments are non-empty
ValidSupplied ==
    /\ valid_das # None /\ valid_das # Some(<< >>)
    /\ valid_trees # None /\ valid_trees # Some(<< >>)

\* validation data is missing: an argument is not given or empty
ValidMissing ==
    \/ valid_das = None \/ valid_das = Some(<< >>)
    \/ valid_trees = None \/ valid_trees = Some(<< >>)

\* C1: at a validation point a checkpoint is persisted exactly when the point
\* is the first one or its combined cost is strictly lower than every combined
\* cost seen at the earlier points; after the save the checkpoint file holds
\* the live parameters.
C1_SaveIffStrictlyBest ==
    last.step = "validated" =>
        /\ last.saved <=> last.cmp \in {"first", "lower"}
        /\ last.saved => (checkpoint_path # None /\ ckpt_file[The(checkpoint_path)] = The(session))

\* C1 witness: a validation point whose cost equals the lowest earlier one
\* went by without a save
C1_Witness ==
    /\ ValidSupplied
    /\ last.step = "validated"
    /\ last.cmp = "equal"
    /\ ~last.saved
    /\ checkpoint_path # None

\* C2 (as stated): with validation data supplied, pass i is followed by a
\* validation step exactly when i is a multiple of validation_freq and
\* i >= min_passes; no other pass validates or saves.
C2_ValidatesFromMinPasses ==
    (ValidSupplied /\ last.iter > 0) =>
        /\ last.step = "validated" <=>
              (last.iter % cfg.validation_freq = 0 /\ last.iter >= cfg.min_passes)
        /\ last.saved => last.step = "validated"

\* C2 (amended): with validation data supplied, pass i is followed by a
\* validation step exactly when i is a multiple of validation_freq and
\* i > min_passes; no other pass validates or saves.
C2_ValidatesAfterMinPasses ==
    (ValidSupplied /\ last.iter > 0) =>
        /\ last.step = "validated" <=>
              (last.iter % cfg.validation_freq = 0 /\ last.iter > cfg.min_passes)
        /\ last.saved => last.step = "validated"

\* C2 witness: pass number min_passes, a multiple of validation_freq, went by
\* without validation, with validation data supplied
C2_Witness ==
    /\ ValidSupplied
    /\ last.iter = cfg.min_passes
    /\ last.iter % cfg.validation_freq = 0
    /\ last.step = "skipped"

\* C3 (as stated): when validation data is missing, train never raises, no
\* pass runs the validation step and no checkpoint is written.
C3_MissingValidationSkipped ==
    ValidMissing =>
        /\ pc # "error"
        /\ last.step \notin {"validated", "raised"}
        /\ checkpoint_path = None

\* the trees a saved and a loaded classifier are compared on
HeldOut == QueryTrees \cup {<<TrainNode>>}

ClassifyAll(p, tvocab) == [t \in HeldOut |-> ClassifyOne(p, tvocab, t)]

\* C5 (as stated): the classifier returned by load_from_file classifies every
\* tree as the live classifier did when save_to_file wrote the model.
C5_RoundTripKeepsLive ==
    loaded # None =>
        ClassifyAll(The(loaded).session, The(loaded).tree_vect)
            = ClassifyAll(The(loaded).saved_from.live, tree_vect)

\* C5 (amended): the loaded classifier classifies every tree as the live one
\* did at saving when no checkpoint had been written or restore_checkpoint
\* had been called after train; when a checkpoint had been written it
\* classifies as the checkpointed parameters do.
C5_RoundTripKeepsSaved ==
    loaded # None =>
        LET c   == The(loaded).saved_from
            out == ClassifyAll(The(loaded).session, The(loaded).tree_vect)
        IN  /\ (~c.had_ckpt \/ c.restored) => out = ClassifyAll(c.live, tree_vect)
            /\ c.had_ckpt => out = ClassifyAll(ckpt_file[The(checkpoint_path)], tree_vect)

\* C5 witness: a model saved with a checkpoint that was not restored, loaded
\* again, classifies some tree differently from the live classifier at saving
C5_Witness ==
    /\ loaded # None
    /\ The(loaded).saved_from.had_ckpt
    /\ ~The(loaded).saved_from.restored
    /\ ClassifyAll(The(loaded).session, The(loaded).tree_vect)
           # ClassifyAll(The(loaded).saved_from.live, tree_vect)

\* C9: after _init_training on N tree/DA pairs with data_portion the training
\* set is the leading round(data_portion * N) pairs followed by exactly one
\* instance, the empty tree with the empty DA; train_trees and train_das are
\* equally long.
C9_EmptyInstanceOnce ==
    session # None =>
        LET n == Len(init_call.trees)
            r == CHOOSE x \in 0..n :
                    /\ 2 * PortionDen * x <= 2 * init_call.k * n + PortionDen
                    /\ 2 * init_call.k * n + PortionDen < 2 * PortionDen * (x + 1)
        IN  /\ Len(train_trees) = r + 1
            /\ Len(train_das) = r + 1
            /\ train_trees[r + 1] = EmptyTree
            /\ train_das[r + 1] = EmptyDA
            /\ \A i \in 1..r : train_trees[i] = init_call.trees[i] /\ train_das[i] = init_call.das[i]

\* C9 witness: _init_training kept one of two pairs and added the empty
\* instance
C9_Witness ==
    /\ session # None
    /\ Len(init_call.trees) = 2
    /\ Len(train_trees) = 2
    /\ train_trees[1] = init_call.trees[1]

\* ------------------------------------------------ claims on termination

\* the positions <<k, j>> of the batches of a pass over order
BatchSlots(order, bs) ==
    LET b == Batches(order, bs)
    IN  UNION {{<<k, j>> : j \in 1..Len(b[k])} : k \in 1..Len(b)}

\* every one of the n training instances is at exactly one position of
\* exactly one batch
EachInstanceInOneBatch(order, bs, n) ==
    LET b == Batches(order, bs)
    IN  \A i \in 1..n :
            Cardinality({kj \in BatchSlots(order, bs) : b[kj[1]][kj[2]] = i}) = 1

\* C11 (as stated): train never raises; its loop runs the passes 1, 2, ...,
\* passes in this order, one after the other, and returns only after pass
\* number passes; in every pass each training instance is in exactly one
\* batch; and a call of train always returns.
C11_TrainRunsAllPasses ==
    /\ [](pc # "error")
    /\ [][(pc = "idle" /\ pc' = "loop") => iter_no' = 1]_vars
    /\ [][pc = "loop" =>
            \/ /\ pc' = "loop"
               /\ iter_no <= cfg.passes
               /\ last'.iter = iter_no
               /\ iter_no' = iter_no + 1
            \/ /\ pc' = "done"
               /\ iter_no = cfg.passes + 1]_vars
    /\ [](last.iter > 0 =>
            EachInstanceInOneBatch(train_order, cfg.batch_size, Len(train_trees)))
    /\ (pc = "loop" ~> pc = "done")

\* ------------------------------------------------ claims on the checkpoint

\* C12: there is never more than one checkpoint file: once checkpoint_path is
\* set every later save goes to the same path and overwrites the file.  When
\* train has returned, a checkpoint exists exactly if some validation point
\* was reached; after restore_checkpoint the live parameters are those held
\* at the validation point of the lowest combined cost (the earliest one on
\* ties); and without a checkpoint restore_checkpoint leaves the live
\* parameters as they are.
C12_OneCheckpointRestoresBest ==
    /\ [](Len(ckpt_file) <= 1 /\ (checkpoint_path = None <=> ckpt_file = << >>))
    /\ [][checkpoint_path # None =>
            (checkpoint_path' = checkpoint_path /\ Len(ckpt_file') = Len(ckpt_file))]_vars
    /\ [](pc = "done" => (checkpoint_path = None <=> best_params = None))
    /\ [](restored => (best_params # None /\ session = best_params))
    /\ [][(pc = "done" /\ checkpoint_path = None) => session' = session]_vars

\* C12 witness: restore_checkpoint replaced the parameters the last pass had
\* left (those a save_to_file before it had seen) by the checkpointed ones
C12_Witness ==
    /\ restored
    /\ saved_ctx # None
    /\ ~The(saved_ctx).restored
    /\ The(saved_ctx).live # The(session)
    /\ session = best_params

====
